---- MODULE Spec2Model ----
(***************************************************************************)
(* A model of alembic/util/langhelpers.py: the type-hierarchy Dispatcher   *)
(* (dispatch_for, dispatch, _fn_or_list, branch) and the module-level      *)
(* proxy functions generated by ModuleClsProxy.                            *)
(***************************************************************************)
EXTENDS Integers, Sequences, FiniteSets, TLC

(* ------------------------------ bounds -------------------------------- *)

\* the number of Dispatcher objects that are ever created
MaxDisp == 2
\* the number of successful registrations (calls of a decorator)
MaxRegs == 2
\* the number of keys of a registry that dispatch() is applied to
MaxKeys == 3

(* ------------------------- the Python universe ------------------------ *)

\* the classes of the model: the universal base type, the string type and
\* a three-level chain Grandparent -> Parent -> Child
Types == {"object", "str", "Grandparent", "Parent", "Child"}

\* string targets; disjoint from the names used for the classes
Strings == {"foo"}

Qualifiers == {"default", "special"}

\* the handler functions: each decorated function is a function of its own,
\* named by the order of the decorator calls (the last one for a call that
\* fails with all MaxRegs registrations made)
Handlers == 1..(MaxRegs + 1)

\* cls.__mro__ : the linearized ancestor chain, most derived first
Mro(cls) ==
    CASE cls = "object"      -> <<"object">>
      [] cls = "str"         -> <<"str", "object">>
      [] cls = "Grandparent" -> <<"Grandparent", "object">>
      [] cls = "Parent"      -> <<"Parent", "Grandparent", "object">>
      [] cls = "Child"       -> <<"Child", "Parent", "Grandparent", "object">>

\* the objects handed to dispatch(): a string, a class, or an instance of a
\* class (an instance of str is a string, so no "instance" of "str")
Objs ==
    [kind : {"string"}, v : Strings]
      \cup [kind : {"type"}, v : Types]
      \cup [kind : {"instance"}, v : Types \ {"str"}]

\* the targets of a registry key: a class or a string key
AllTargets == Types \cup Strings

Keys == AllTargets \X Qualifiers

\* the targets the dispatch_for steps of Spec register handlers for (the
\* registries of SpecResolve range over all of Keys)
RegTargets == {"Parent"}

RegKeys == RegTargets \X Qualifiers

\* the objects the dispatch steps of Spec dispatch on (those of SpecResolve
\* range over all of Objs)
SomeObjs == {[kind |-> "instance", v |-> "Child"]}

NoRef == <<0, <<"", "">> >>

\* a registry value: a function, or a reference to a list object of the heap
\* (the field that does not apply is 0, or the reference NoRef)
FnVal(fn) == [kind |-> "fn", fn |-> fn, ref |-> NoRef]
ListVal(ref) == [kind |-> "list", fn |-> 0, ref |-> ref]
\* the closure go() of _fn_or_list, which holds a reference to the list
GoVal(ref) == [kind |-> "go", fn |-> 0, ref |-> ref]
NoVal == [kind |-> "none", fn |-> 0, ref |-> NoRef]

(* ------------------------------- state -------------------------------- *)

VARIABLES
    disp,        \* the Dispatcher objects: <<[uselist, registry]>>, by identity
    heap,        \* the list objects: reference -> sequence of handlers
    held,        \* the value the latest successful dispatch() returned
    heldAt,      \* history: where held was resolved, and the slot's handlers then
    nregs,       \* the number of successful registrations so far
    parent,      \* history: the dispatcher each one was branched from, or 0
    registered,  \* history: per dispatcher and key, the handlers registered
                 \* (or inherited at branch time), in registration order
    last         \* history: the latest operation and its outcome

dvars == <<disp, heap, held, heldAt, nregs, parent, registered, last>>

VARIABLES
    attr_names,   \* _setups[cls][0]: the non-callable public attributes
    modules,      \* _setups[cls][1]: the modules proxies were created in
    ns,           \* each module's namespace (globals_ and locals_, which
                  \* are one dict at module level)
    everInstalled,\* history: the modules _install_proxy has written to
    plast         \* history: the latest proxy operation and its outcome

pvars == <<attr_names, modules, ns, everInstalled, plast>>

vars == <<disp, heap, held, heldAt, nregs, parent, registered, last,
          attr_names, modules, ns, everInstalled, plast>>

NoKey == <<"", "">>
NoObj == [kind |-> "none", v |-> ""]
EmptyFn == [x \in {} |-> x]

\* the record of an operation: its name, the dispatcher it was called on,
\* the arguments of a dispatch(), the exception raised, the handlers a call
\* invoked and the position of the handler call that raised (0: none)
Last(op, self, obj, qualifier, err, calls, raises) ==
    [op |-> op, self |-> self, obj |-> obj, qualifier |-> qualifier,
     err |-> err, calls |-> calls, raises |-> raises]

NoHeld == [self |-> 0, key |-> NoKey, fns |-> <<>>]

(* ----------------------------- Dispatcher ----------------------------- *)

\* Dispatcher.__init__
NewDispatcher(uselist) == [uselist |-> uselist, registry |-> EmptyFn]

\* dispatch_for without the assertion: an existing handler is overwritten
DecorateOverwrite(self, d, target, qualifier, fn) ==
    LET key == <<target, qualifier>>
        reg == self.registry
    IN  IF self.uselist
        THEN IF key \in DOMAIN reg
             THEN [registry |-> reg,
                   heap |-> [heap EXCEPT ![reg[key].ref] = Append(@, fn)],
                   err |-> "none"]
             ELSE [registry |-> (key :> ListVal(<<d, key>>)) @@ reg,
                   heap |-> (<<d, key>> :> <<fn>>) @@ heap,
                   err |-> "none"]
        ELSE [registry |-> (key :> FnVal(fn)) @@ reg,
              heap |-> heap, err |-> "none"]

\* dispatch_for with insert(0, fn) in place of append(fn)
DecoratePrepend(self, d, target, qualifier, fn) ==
    LET key == <<target, qualifier>>
        reg == self.registry
    IN  IF self.uselist
        THEN IF key \in DOMAIN reg
             THEN [registry |-> reg,
                   heap |-> [heap EXCEPT ![reg[key].ref] = <<fn>> \o @],
                   err |-> "none"]
             ELSE [registry |-> (key :> ListVal(<<d, key>>)) @@ reg,
                   heap |-> (<<d, key>> :> <<fn>>) @@ heap,
                   err |-> "none"]
        ELSE IF key \in DOMAIN reg
             THEN [registry |-> reg, heap |-> heap, err |-> "AssertionError"]
             ELSE [registry |-> (key :> FnVal(fn)) @@ reg,
                   heap |-> heap, err |-> "none"]

\* the decorator returned by dispatch_for(target, qualifier), applied to fn
\* on dispatcher self, whose identity is d: the registry and the heap after
\* it, and the exception it raises
Decorate(self, d, target, qualifier, fn) ==
    LET key == <<target, qualifier>>
        reg == self.registry
    IN  IF self.uselist
        THEN IF key \in DOMAIN reg
             THEN IF reg[key].kind = "list"
                  THEN [registry |-> reg,
                        heap |-> [heap EXCEPT ![reg[key].ref] = Append(@, fn)],
                        err |-> "none"]
                  ELSE [registry |-> reg, heap |-> heap,
                        err |-> "AttributeError"]
             ELSE [registry |-> (key :> ListVal(<<d, key>>)) @@ reg,
                   heap |-> (<<d, key>> :> <<fn>>) @@ heap,
                   err |-> "none"]
        ELSE IF key \in DOMAIN reg
             THEN [registry |-> reg, heap |-> heap, err |-> "AssertionError"]
             ELSE [registry |-> (key :> FnVal(fn)) @@ reg,
                   heap |-> heap, err |-> "none"]

\* Dispatcher._fn_or_list: in uselist mode the closure go() over the list
\* object itself, otherwise the registry value
FnOrList(self, fn_or_list) ==
    IF self.uselist
    THEN GoVal(fn_or_list.ref)
    ELSE fn_or_list

\* a probe sequence that treats a string like any other instance
TargetsByType(obj) ==
    IF obj.kind = "type"
    THEN Mro(obj.v)
    ELSE IF obj.kind = "string" THEN Mro("str") ELSE Mro(obj.v)

\* the class of an instance
TypeOf(obj) == obj.v

\* the probe sequence of dispatch()
Targets(obj) ==
    IF obj.kind = "string"
    THEN <<obj.v>>
    ELSE IF obj.kind = "type"
         THEN Mro(obj.v)
         ELSE Mro(TypeOf(obj))

RECURSIVE Probe(_, _, _, _)
\* the for loop of dispatch(), from position i of targets
Probe(self, targets, i, qualifier) ==
    IF i > Len(targets)
    THEN [err |-> "ValueError", key |-> NoKey, val |-> NoVal]
    ELSE LET spcls == targets[i]
             reg == self.registry
         IN  IF qualifier # "default" /\ <<spcls, qualifier>> \in DOMAIN reg
             THEN [err |-> "none", key |-> <<spcls, qualifier>>,
                   val |-> FnOrList(self, reg[<<spcls, qualifier>>])]
             ELSE IF <<spcls, "default">> \in DOMAIN reg
                  THEN [err |-> "none", key |-> <<spcls, "default">>,
                        val |-> FnOrList(self, reg[<<spcls, "default">>])]
                  ELSE Probe(self, targets, i + 1, qualifier)

\* a dispatch that looks for the exact qualifier along the whole chain
\* before it falls back to "default"
DispatchExactFirst(self, obj, qualifier) ==
    LET targets == Targets(obj)
        reg == self.registry
        exact == {i \in 1..Len(targets) : <<targets[i], qualifier>> \in DOMAIN reg}
    IN  IF exact # {}
        THEN LET i == CHOOSE j \in exact : \A k \in exact : j <= k
             IN  [err |-> "none", key |-> <<targets[i], qualifier>>,
                  val |-> FnOrList(self, reg[<<targets[i], qualifier>>])]
        ELSE Probe(self, targets, 1, "default")

\* Dispatcher.dispatch: the exception raised, the key of the resolved slot
\* and the value returned
Dispatch(self, obj, qualifier) == Probe(self, Targets(obj), 1, qualifier)

\* a branch that copies the registry but shares the list objects
BranchShallow(self, d) ==
    [disp |-> [NewDispatcher(FALSE) EXCEPT !.registry = self.registry],
     heap |-> heap]

\* Dispatcher.branch: the new dispatcher, whose identity is d, and the heap
\* after it; the new dispatcher is made by Dispatcher(), so its uselist is
\* the default, False
Branch(self, d) ==
    LET reg == self.registry
    IN  IF self.uselist
        THEN [disp |-> [NewDispatcher(FALSE) EXCEPT !.registry =
                           [k \in DOMAIN reg |-> ListVal(<<d, k>>)]],
              heap |-> [r \in {<<d, k>> : k \in DOMAIN reg} |->
                           heap[reg[r[2]].ref]] @@ heap]
        ELSE [disp |-> [NewDispatcher(FALSE) EXCEPT !.registry = reg],
              heap |-> heap]

\* the handlers a registry value or a returned value stands for
Content(v) ==
    IF v.kind = "fn" THEN <<v.fn>>
    ELSE IF v.kind \in {"list", "go"} THEN heap[v.ref]
    ELSE <<>>

\* a go() that stops after its first handler
GoFirstOnly(fns, i, raises) ==
    IF i > Len(fns) THEN <<>> ELSE <<fns[i]>>

\* a go() that swallows the exceptions of the handlers
GoContinue(fns, i, raises) ==
    SubSeq(fns, i, Len(fns))

RECURSIVE Go(_, _, _)
\* the loop of go() from position i, where the handler call at position
\* raises (if any) raises: the handlers called, up to and including that one
Go(fns, i, raises) ==
    IF i > Len(fns) THEN <<>>
    ELSE IF i = raises THEN <<fns[i]>>
    ELSE <<fns[i]>> \o Go(fns, i + 1, raises)

\* calling a value dispatch() returned, where the handler call at position
\* raises raises (0: none does): the handlers called, in order, and the
\* exception that comes out
Call(v, raises) ==
    IF v.kind = "fn"
    THEN [calls |-> <<v.fn>>,
          err |-> IF raises = 1 THEN "HandlerError" ELSE "none"]
    ELSE IF v.kind = "go"
         THEN [calls |-> Go(heap[v.ref], 1, raises),
               err |-> IF raises \in 1..Len(heap[v.ref])
                       THEN "HandlerError" ELSE "none"]
         ELSE [calls |-> <<>>, err |-> "TypeError"]

(* ------------------------- Dispatcher actions ------------------------- *)

\* the function the next decorator is applied to
NextHandler == nregs + 1

\* Dispatcher(uselist)
Construct(uselist) ==
    /\ Len(disp) < MaxDisp
    /\ disp' = Append(disp, NewDispatcher(uselist))
    /\ parent' = Append(parent, 0)
    /\ registered' = Append(registered, EmptyFn)
    /\ last' = Last("init", Len(disp) + 1, NoObj, "", "none", <<>>, 0)
    /\ UNCHANGED <<heap, held, heldAt, nregs>>

\* disp[d].dispatch_for(target, qualifier)(fn)
DoDispatchFor(d, target, qualifier, fn) ==
    /\ d \in DOMAIN disp
    /\ LET r == Decorate(disp[d], d, target, qualifier, fn)
           key == <<target, qualifier>>
           log == registered[d]
       IN  /\ r.err = "none" => nregs < MaxRegs
           /\ disp' = [disp EXCEPT ![d].registry = r.registry]
           /\ heap' = r.heap
           /\ nregs' = IF r.err = "none" THEN nregs + 1 ELSE nregs
           /\ registered' =
                 IF r.err # "none" THEN registered
                 ELSE [registered EXCEPT ![d] =
                          IF key \in DOMAIN log
                          THEN [log EXCEPT ![key] = Append(@, fn)]
                          ELSE (key :> <<fn>>) @@ log]
           /\ last' = Last("dispatch_for", d, NoObj, "", r.err, <<>>, 0)
    /\ UNCHANGED <<held, heldAt, parent>>

\* disp[d].dispatch(obj, qualifier)
DoDispatch(d, obj, qualifier) ==
    /\ d \in DOMAIN disp
    /\ LET r == Dispatch(disp[d], obj, qualifier)
       IN  /\ last' = Last("dispatch", d, obj, qualifier, r.err, <<>>, 0)
           /\ IF r.err = "none"
              THEN /\ held' = r.val
                   /\ heldAt' = [self |-> d, key |-> r.key,
                                 fns |-> Content(r.val)]
              ELSE UNCHANGED <<held, heldAt>>
    /\ UNCHANGED <<disp, heap, nregs, parent, registered>>

\* calling the value the latest dispatch() returned
DoCall(raises) ==
    /\ held.kind # "none"
    /\ raises <= (IF held.kind = "list" THEN 0 ELSE Len(Content(held)))
    /\ LET r == Call(held, raises)
       IN  last' = Last("call", 0, NoObj, "", r.err, r.calls, raises)
    /\ UNCHANGED <<disp, heap, held, heldAt, nregs, parent, registered>>

\* disp[d].branch()
DoBranch(d) ==
    /\ d \in DOMAIN disp
    /\ Len(disp) < MaxDisp
    /\ LET r == Branch(disp[d], Len(disp) + 1)
       IN  /\ disp' = Append(disp, r.disp)
           /\ heap' = r.heap
    /\ parent' = Append(parent, d)
    /\ registered' = Append(registered, registered[d])
    /\ last' = Last("branch", d, NoObj, "", "none", <<>>, 0)
    /\ UNCHANGED <<held, heldAt, nregs>>

DInit ==
    /\ disp = <<>>
    /\ heap = EmptyFn
    /\ held = NoVal
    /\ heldAt = NoHeld
    /\ nregs = 0
    /\ parent = <<>>
    /\ registered = <<>>
    /\ last = Last("none", 0, NoObj, "", "none", <<>>, 0)

\* one dispatcher whose registry holds up to MaxKeys keys, as dispatch_for
\* calls with a function of its own for each key leave a new dispatcher
ResolveInit ==
    \E uselist \in BOOLEAN, ks \in SUBSET Keys :
       /\ Cardinality(ks) <= MaxKeys
       /\ LET f == CHOOSE g \in [ks -> 1..Cardinality(ks)] :
                      \A k1, k2 \in ks : g[k1] = g[k2] => k1 = k2
          IN  /\ disp = << [uselist |-> uselist,
                            registry |-> [k \in ks |->
                               IF uselist THEN ListVal(<<1, k>>)
                               ELSE FnVal(f[k])]] >>
              /\ heap = IF uselist
                        THEN [r \in {<<1, k>> : k \in ks} |-> <<f[r[2]]>>]
                        ELSE EmptyFn
              /\ registered = << [k \in ks |-> <<f[k]>>] >>
       /\ nregs = Cardinality(ks)
       /\ held = NoVal
       /\ heldAt = NoHeld
       /\ parent = <<0>>
       /\ last = Last("none", 0, NoObj, "", "none", <<>>, 0)

(* --------------------------- ModuleClsProxy --------------------------- *)

\* the modules create_module_class_proxy is called in, and the instances of
\* the proxied class
ModuleIds == {"m1", "m2"}
Proxies == {"p1", "p2"}

\* dir(cls): public methods, a public attribute that is not callable, and
\* names that start with an underscore
PublicMethods == {"meth1", "meth2"}
PublicAttrs == {"attr"}
PrivateNames == {"_install_proxy", "_remove_proxy"}
Dir == PublicMethods \cup PublicAttrs \cup PrivateNames

StartsWithUnderscore(name) == name \in PrivateNames
Callable(name) == name \in PublicMethods \cup PrivateNames

PLast(op, m, name, err, to) ==
    [op |-> op, m |-> m, name |-> name, err |-> err, to |-> to]

\* _setup_proxy over dir(cls), each name through _add_proxied_attribute:
\* the namespace of the module afterwards (a generated function is bound to
\* its name; _create_method_proxy also binds _name_error)
SetupProxy(nsm) ==
    LET fns == {n \in Dir : ~StartsWithUnderscore(n) /\ Callable(n)}
    IN  [n \in DOMAIN nsm \cup fns \cup (IF fns # {} THEN {"_name_error"} ELSE {})
            |-> IF n \in fns THEN "proxyfn"
                ELSE IF n = "_name_error" THEN "fn" ELSE nsm[n]]

\* the names _add_proxied_attribute adds to attr_names
SetupAttrs == {n \in Dir : ~StartsWithUnderscore(n) /\ ~Callable(n)}

\* the body of the loop of _install_proxy for one module
InstallIn(nsm, self) ==
    [n \in DOMAIN nsm \cup {"_proxy"} \cup attr_names |->
        IF n = "_proxy" THEN self
        ELSE IF n \in attr_names THEN self
        ELSE nsm[n]]

RECURSIVE RemoveFrom(_, _)
\* the loop of _remove_proxy from position i of modules: the namespaces and
\* the exception; del of a name that is not bound raises KeyError, after
\* _proxy of that module was set to None
RemoveFrom(nss, i) ==
    IF i > Len(modules) THEN [ns |-> nss, err |-> "none"]
    ELSE LET m == modules[i]
             nsm == nss[m]
             none == [n \in DOMAIN nsm \cup {"_proxy"} |->
                         IF n = "_proxy" THEN "None" ELSE nsm[n]]
         IN  IF attr_names \subseteq DOMAIN nsm
             THEN RemoveFrom(
                    [nss EXCEPT ![m] =
                        [n \in DOMAIN none \ attr_names |-> none[n]]],
                    i + 1)
             ELSE [ns |-> [nss EXCEPT ![m] = none], err |-> "KeyError"]

\* a generated function that takes a _proxy of None for an unbound _proxy
ProxyFnNoneIsUnbound(m, name) ==
    IF "_proxy" \notin DOMAIN ns[m] \/ ns[m]["_proxy"] = "None"
    THEN [err |-> "NameError", to |-> "none"]
    ELSE [err |-> "none", to |-> ns[m]["_proxy"]]

\* the generated module-level function name, called in module m: the
\* exception raised (NameError by _name_error when the name _proxy is not
\* bound, AttributeError by None.name) and the object the call is forwarded to
ProxyFn(m, name) ==
    IF "_proxy" \notin DOMAIN ns[m]
    THEN [err |-> "NameError", to |-> "none"]
    ELSE IF ns[m]["_proxy"] = "None"
         THEN [err |-> "AttributeError", to |-> "none"]
         ELSE [err |-> "none", to |-> ns[m]["_proxy"]]

\* cls.create_module_class_proxy(globals(), locals()) in module m
CreateModuleClassProxy(m) ==
    /\ \A i \in DOMAIN modules : modules[i] # m
    /\ modules' = Append(modules, m)
    /\ ns' = [ns EXCEPT ![m] = SetupProxy(@)]
    /\ attr_names' = attr_names \cup SetupAttrs
    /\ plast' = PLast("create_module_class_proxy", m, "", "none", "none")
    /\ UNCHANGED everInstalled

\* self._install_proxy()
InstallProxy(self) ==
    /\ ns' = [m \in ModuleIds |->
                IF \E i \in DOMAIN modules : modules[i] = m
                THEN InstallIn(ns[m], self) ELSE ns[m]]
    /\ everInstalled' = everInstalled \cup {modules[i] : i \in DOMAIN modules}
    /\ plast' = PLast("_install_proxy", "", "", "none", self)
    /\ UNCHANGED <<attr_names, modules>>

\* self._remove_proxy()
RemoveProxy(self) ==
    /\ LET r == RemoveFrom(ns, 1)
       IN  /\ ns' = r.ns
           /\ plast' = PLast("_remove_proxy", "", "", r.err, self)
    /\ UNCHANGED <<attr_names, modules, everInstalled>>

\* a call of the generated function name of module m
CallProxyFn(m, name) ==
    /\ name \in DOMAIN ns[m]
    /\ ns[m][name] = "proxyfn"
    /\ LET r == ProxyFn(m, name)
       IN  plast' = PLast("call", m, name, r.err, r.to)
    /\ UNCHANGED <<attr_names, modules, ns, everInstalled>>

PInit ==
    /\ attr_names = {}
    /\ modules = <<>>
    /\ ns = [m \in ModuleIds |-> EmptyFn]
    /\ everInstalled = {}
    /\ plast = PLast("none", "", "", "none", "none")

Init == DInit /\ PInit

Next ==
    \/ \E uselist \in BOOLEAN : Construct(uselist) /\ UNCHANGED pvars
    \/ \E d \in 1..MaxDisp, k \in RegKeys :
          DoDispatchFor(d, k[1], k[2], NextHandler) /\ UNCHANGED pvars
    \/ \E d \in 1..MaxDisp, obj \in SomeObjs, q \in Qualifiers :
          DoDispatch(d, obj, q) /\ UNCHANGED pvars
    \/ \E raises \in 0..MaxRegs : DoCall(raises) /\ UNCHANGED pvars
    \/ \E d \in 1..MaxDisp : DoBranch(d) /\ UNCHANGED pvars

Spec == Init /\ [][Next]_vars

NextProxy ==
    \/ \E m \in ModuleIds : CreateModuleClassProxy(m) /\ UNCHANGED dvars
    \/ \E self \in Proxies : InstallProxy(self) /\ UNCHANGED dvars
    \/ \E self \in Proxies : RemoveProxy(self) /\ UNCHANGED dvars
    \/ \E m \in ModuleIds, name \in PublicMethods :
          CallProxyFn(m, name) /\ UNCHANGED dvars

SpecProxy == Init /\ [][NextProxy]_vars

NextResolve ==
    \E obj \in Objs, q \in Qualifiers : DoDispatch(1, obj, q) /\ UNCHANGED pvars

InitResolve == ResolveInit /\ PInit

SpecResolve == InitResolve /\ [][NextResolve]_vars

(* ------------------------------ claims -------------------------------- *)

\* the probe sequence as the specification gives it: the string itself, or
\* the ancestor chain of the class, or of the class of the instance
Candidates(obj) == IF obj.kind = "string" THEN <<obj.v>> ELSE Mro(obj.v)

\* candidate c has a handler under qualifier q (q not "default") or under
\* "default"
Matches(reg, c, q) ==
    \/ q # "default" /\ <<c, q>> \in DOMAIN reg
    \/ <<c, "default">> \in DOMAIN reg

\* the positions of the probe sequence of obj that match
Matching(reg, obj, q) ==
    {i \in 1..Len(Candidates(obj)) : Matches(reg, Candidates(obj)[i], q)}

\* the key of the first matching candidate, the exact qualifier preferred
ExpectedKey(reg, obj, q) ==
    LET c == Candidates(obj)
        M == Matching(reg, obj, q)
        i == CHOOSE j \in M : \A k \in M : j <= k
    IN  IF q # "default" /\ <<c[i], q>> \in DOMAIN reg
        THEN <<c[i], q>> ELSE <<c[i], "default">>

ChildInstance == [kind |-> "instance", v |-> "Child"]
FooString == [kind |-> "string", v |-> "foo"]

\* C1: for every registry, target and qualifier, a dispatch that finds a
\* matching candidate returns the slot of the first candidate of the probe
\* sequence that has a handler under the qualifier (when it is not "default")
\* or under "default", the exact qualifier preferred at that candidate; so
\* with "special" on Grandparent only and "default" on Parent, dispatch on a
\* Child with "special" returns the Parent default slot.
C1_FirstCandidateWins ==
    last.op = "dispatch" =>
       LET reg == disp[last.self].registry
           obj == last.obj
           q == last.qualifier
       IN  /\ Matching(reg, obj, q) # {} =>
                 /\ last.err = "none"
                 /\ heldAt.key = ExpectedKey(reg, obj, q)
                 /\ Content(held) = Content(reg[ExpectedKey(reg, obj, q)])
                 /\ held.kind \in {"fn", "go"}
           /\ (/\ obj \in {ChildInstance, [kind |-> "type", v |-> "Child"]}
               /\ q = "special"
               /\ <<"Grandparent", "special">> \in DOMAIN reg
               /\ <<"Parent", "default">> \in DOMAIN reg
               /\ <<"Parent", "special">> \notin DOMAIN reg
               /\ <<"Child", "special">> \notin DOMAIN reg
               /\ <<"Child", "default">> \notin DOMAIN reg)
              => /\ last.err = "none"
                 /\ heldAt.key = <<"Parent", "default">>
                 /\ Content(held) = Content(reg[<<"Parent", "default">>])

\* C1 witness: "special" is registered on Grandparent only, "default" on
\* Parent, and dispatch on a Child with "special" returned the Parent handler
C1_Witness ==
    /\ last.op = "dispatch" /\ last.err = "none"
    /\ last.obj = ChildInstance /\ last.qualifier = "special"
    /\ ~disp[1].uselist
    /\ DOMAIN disp[1].registry
          = {<<"Grandparent", "special">>, <<"Parent", "default">>}
    /\ disp[1].registry[<<"Grandparent", "special">>]
          # disp[1].registry[<<"Parent", "default">>]
    /\ held = disp[1].registry[<<"Parent", "default">>]

\* C2: on a dispatcher whose uselist is false, registering under a key that
\* holds a handler raises (AssertionError) and leaves registry and heap as
\* they were, and registering under the same target with another qualifier
\* succeeds; so every slot holds the first handler registered under its key
\* and no registration under a key ever succeeded twice.
C2_DuplicateRegistration ==
    \A d \in DOMAIN disp :
       ~disp[d].uselist =>
          LET reg == disp[d].registry
          IN  /\ \A k \in DOMAIN reg, fn \in Handlers :
                    LET r == Decorate(disp[d], d, k[1], k[2], fn)
                    IN  /\ r.err = "AssertionError"
                        /\ r.registry = reg
                        /\ r.heap = heap
              /\ \A k \in DOMAIN reg, q \in Qualifiers, fn \in Handlers :
                    <<k[1], q>> \notin DOMAIN reg =>
                       LET r == Decorate(disp[d], d, k[1], q, fn)
                       IN  /\ r.err = "none"
                           /\ DOMAIN r.registry = DOMAIN reg \cup {<<k[1], q>>}
                           /\ r.registry[<<k[1], q>>] = FnVal(fn)
                           /\ \A k2 \in DOMAIN reg : r.registry[k2] = reg[k2]
              /\ DOMAIN reg = DOMAIN registered[d]
              /\ \A k \in DOMAIN reg :
                    reg[k].kind = "fn" =>
                       /\ Len(registered[d][k]) = 1
                       /\ reg[k] = FnVal(registered[d][k][1])

\* C2 witness: a registration on a uselist=false dispatcher just failed with
\* the assertion, and a target of it is registered under both qualifiers
C2_Witness ==
    /\ last.op = "dispatch_for" /\ last.err = "AssertionError"
    /\ ~disp[last.self].uselist /\ parent[last.self] = 0
    /\ \E t \in RegTargets :
          /\ <<t, "default">> \in DOMAIN disp[last.self].registry
          /\ <<t, "special">> \in DOMAIN disp[last.self].registry

\* C3: on a dispatcher constructed with uselist=true, calling the aggregate a
\* dispatch returned calls, when no handler raises, all the handlers
\* registered under the resolved key, each once, in registration order.
C3_MultiCallsAllInOrder ==
    (/\ last.op = "call" /\ last.raises = 0
     /\ held.kind = "go"
     /\ parent[heldAt.self] = 0
     /\ disp[heldAt.self].uselist)
    => /\ last.err = "none"
       /\ last.calls = registered[heldAt.self][heldAt.key]

\* C3 witness: an aggregate over a slot with at least two handlers was called
C3_Witness ==
    /\ last.op = "call" /\ last.raises = 0 /\ held.kind = "go"
    /\ parent[heldAt.self] = 0
    /\ Len(last.calls) >= 2

\* what a dispatcher's registry holds, list objects read through the heap
View(d) ==
    [k \in DOMAIN disp[d].registry |->
        [kind |-> disp[d].registry[k].kind,
         fns |-> Content(disp[d].registry[k])]]

\* the outcome of a dispatch: the failure, the single handler, the aggregate
\* with the handlers it invokes, or a bare list (which cannot be called)
Outcome(self, obj, q) ==
    LET r == Dispatch(self, obj, q)
    IN  IF r.err # "none"
        THEN [kind |-> "NoDispatchTarget", fns |-> <<>>]
        ELSE [kind |-> IF r.val.kind = "fn" THEN "handler"
                       ELSE IF r.val.kind = "go" THEN "aggregate"
                       ELSE "list",
              fns |-> Content(r.val)]

\* one object for every probe sequence: the string, the class str, and an
\* instance of each other class
ProbeObjs ==
    {FooString, [kind |-> "type", v |-> "str"]}
      \cup [kind : {"instance"}, v : Types \ {"str"}]

Outcomes(d) ==
    [a \in ProbeObjs \X Qualifiers |-> Outcome(disp[d], a[1], a[2])]

\* C4: a registration on one dispatcher changes the registry of no other
\* dispatcher, and no dispatch outcome of the dispatcher it was branched from
\* nor of a dispatcher branched from it.
C4_BranchIsolation ==
    [][\A x \in DOMAIN disp :
          (last'.op = "dispatch_for" /\ last'.self = x) =>
             \A y \in DOMAIN disp \ {x} :
                /\ View(y)' = View(y)
                /\ (parent[y] = x \/ parent[x] = y) =>
                      Outcomes(y)' = Outcomes(y)]_vars

\* C4 witness: after b was branched from a uselist=true dispatcher d, a
\* registration on d appended to a slot that existed at branch time, and b
\* still holds the slot as it was
C4_Witness ==
    /\ last.op = "dispatch_for" /\ last.err = "none"
    /\ disp[last.self].uselist
    /\ \E b \in DOMAIN disp :
          /\ parent[b] = last.self
          /\ \E k \in DOMAIN disp[b].registry :
                /\ k \in DOMAIN disp[last.self].registry
                /\ Len(View(last.self)[k].fns) > Len(View(b)[k].fns)

\* every slot of dispatcher d is of the kind its uselist flag selects, and d
\* has the flag of the dispatcher it was branched from
ConsistentWithMulti(d) ==
    /\ parent[d] # 0 => disp[d].uselist = disp[parent[d]].uselist
    /\ \A k \in DOMAIN disp[d].registry :
          disp[d].registry[k].kind = IF disp[d].uselist THEN "list" ELSE "fn"

\* C5: the uselist flag of a dispatcher never changes, a branch has the flag
\* of the dispatcher it was branched from, every slot of a uselist=false
\* dispatcher holds one handler and every slot of a uselist=true dispatcher
\* holds a list of handlers.
C5_RegistryConsistentWithMulti ==
    [][/\ \A d \in DOMAIN disp : disp'[d].uselist = disp[d].uselist
       /\ \A d \in DOMAIN disp' : ConsistentWithMulti(d)']_vars

\* C6: right after b = d.branch(), every dispatch on b has the outcome of the
\* same dispatch on d: the same failure, the same handler, or an aggregate
\* that invokes the same handlers in the same order.
C6_BranchSameOutcomes ==
    last.op = "branch" =>
       \A obj \in Objs, q \in Qualifiers :
          Outcome(disp[Len(disp)], obj, q) = Outcome(disp[last.self], obj, q)

\* C7: dispatch raises (ValueError) exactly when no candidate of the probe
\* sequence has a handler under the qualifier or under "default"; for a
\* string the probe sequence is the string alone, whatever is registered for
\* the class str or for object.
C7_NoDispatchTarget ==
    last.op = "dispatch" =>
       LET reg == disp[last.self].registry
       IN  /\ last.err \in {"none", "ValueError"}
           /\ last.err = "ValueError"
                 <=> Matching(reg, last.obj, last.qualifier) = {}
           /\ (/\ last.obj.kind = "string"
               /\ <<last.obj.v, last.qualifier>> \notin DOMAIN reg
               /\ <<last.obj.v, "default">> \notin DOMAIN reg)
              => last.err = "ValueError"

\* C7 witness: dispatch on the string "foo" failed while handlers are
\* registered for the class str and for object
C7_Witness ==
    /\ last.op = "dispatch" /\ last.err = "ValueError"
    /\ last.obj = FooString
    /\ <<"str", "default">> \in DOMAIN disp[1].registry
    /\ <<"object", "default">> \in DOMAIN disp[1].registry

IsPrefix(s, t) == Len(s) <= Len(t) /\ SubSeq(t, 1, Len(s)) = s

\* C8 as claimed: a call of the value an earlier dispatch returned invokes
\* exactly the handlers the resolved slot held when that dispatch returned.
C8_InvokesSlotAsDispatched ==
    (last.op = "call" /\ last.raises = 0 /\ held.kind \in {"fn", "go"})
    => last.calls = heldAt.fns

\* C8 amended: a single handler returned by a dispatch is the handler of the
\* slot as dispatched, whatever is registered later; an aggregate invokes the
\* handlers the resolved slot holds when the aggregate is called: those it
\* held when the dispatch returned, then those registered since under the
\* same key of the same dispatcher.
C8_AggregateReadsSlotWhenCalled ==
    (last.op = "call" /\ last.raises = 0 /\ held.kind \in {"fn", "go"})
    => /\ last.err = "none"
       /\ held.kind = "fn" => last.calls = heldAt.fns
       /\ held.kind = "go" =>
             /\ IsPrefix(heldAt.fns, last.calls)
             /\ last.calls = Content(disp[heldAt.self].registry[heldAt.key])
             /\ last.calls = registered[heldAt.self][heldAt.key]

\* C8 witness: an aggregate was called after a handler was registered under
\* its key since the dispatch that returned it
C8_Witness ==
    /\ last.op = "call" /\ last.raises = 0 /\ held.kind = "go"
    /\ Len(last.calls) > Len(heldAt.fns)

\* C9: when the k-th handler of the slot raises, the aggregate raises that
\* exception, having called handlers 1..k once each in registration order
\* and none of the handlers after the k-th.
C9_FailFast ==
    (last.op = "call" /\ held.kind = "go" /\ last.raises >= 1)
    => /\ last.err = "HandlerError"
       /\ last.calls = SubSeq(registered[heldAt.self][heldAt.key],
                              1, last.raises)

\* C9 witness: the first handler of a slot of at least two raised
C9_Witness ==
    /\ last.op = "call" /\ held.kind = "go"
    /\ last.err = "HandlerError"
    /\ last.raises < Len(Content(held))

\* a proxy object is installed in module m
Installed(m) == "_proxy" \in DOMAIN ns[m] /\ ns[m]["_proxy"] \in Proxies

\* C10 as claimed: a call of a generated function while no proxy object is
\* installed in its module (none was installed yet, or the one installed was
\* removed) raises NameError and invokes no method; while one is installed
\* the call is forwarded to that object.
C10_ProxyCall ==
    (/\ plast.op = "call"
     /\ plast.m \in everInstalled \/ "_proxy" \notin DOMAIN ns[plast.m])
    => IF Installed(plast.m)
       THEN plast.err = "none" /\ plast.to = ns[plast.m]["_proxy"]
       ELSE plast.err = "NameError" /\ plast.to = "none"

\* C10 amended: a call of a generated function raises NameError, invoking no
\* method, while the name _proxy is not bound in its module (before the first
\* _install_proxy); after a _remove_proxy, which binds _proxy to None, it
\* raises AttributeError, invoking no method; while a proxy object is
\* installed the call is forwarded to that object.
C10_ProxyCallByBinding ==
    plast.op = "call" =>
       IF Installed(plast.m)
       THEN plast.err = "none" /\ plast.to = ns[plast.m]["_proxy"]
       ELSE /\ plast.to = "none"
            /\ plast.err = IF "_proxy" \in DOMAIN ns[plast.m]
                           THEN "AttributeError" ELSE "NameError"
            /\ plast.err = "NameError" => plast.m \notin everInstalled

\* C10 witness: a generated function was called after the proxy object
\* installed in its module was removed
C10_Witness ==
    /\ plast.op = "call"
    /\ plast.m \in everInstalled
    /\ ~Installed(plast.m)
    /\ plast.err = "AttributeError"

====
